---- MODULE Spec2Model ----
(***************************************************************************)
(* Model of PageOptimizer.optimize_to_one_page (optimizer_service.py) and  *)
(* of the two collaborators it drives: LaTeXService.render_and_compile     *)
(* (latex_service.py) and ClaudeService.suggest_content_reduction          *)
(* (claude_service.py), over ResumeData documents (models/resume.py).      *)
(*                                                                         *)
(* One optimize call is one behaviour.  The page count a compilation       *)
(* yields, whether the toolchain fails, and what the AI service answers    *)
(* are chosen by the environment at each invocation.                       *)
(***************************************************************************)
EXTENDS Integers, Sequences, FiniteSets, TLC

(***************************************************************************)
(* Bounds of the model.                                                    *)
(***************************************************************************)
MaxProjects == 4
MaxBullets == 5
MaxProjBullets == 3
MaxExperience == 3
MaxEducation == 2
MaxIterations == 4

(***************************************************************************)
(* Optional[T] values are sequences of length at most one.                 *)
(***************************************************************************)
None == <<>>

Some(x) == <<x>>

(***************************************************************************)
(* Documents (ResumeData).  Entries are told apart by their position i;    *)
(* bullets are told apart by their position b inside the entry.            *)
(***************************************************************************)
PersonalInfo(who) ==
    [name |-> who, email |-> "e@x.org", phone |-> "5550001111"]

Education(i, withExtras) ==
    [institution |-> i, location |-> i, degree |-> i, dates |-> i,
     gpa |-> IF withExtras THEN Some("3.9") ELSE None,
     additional_info |-> IF withExtras THEN Some(<<"honors">>) ELSE None]

Experience(i, nb) ==
    [title |-> i, company |-> i, location |-> i, dates |-> i,
     bullets |-> [b \in 1..nb |-> b]]

Project(i, nb) ==
    [name |-> i, technologies |-> i, date |-> i,
     bullets |-> [b \in 1..nb |-> b]]

ResumeData(who, nEdu, nExp, expBullets, nProj, projBullets) ==
    [personal_info |-> PersonalInfo(who),
     education |-> [i \in 1..nEdu |-> Education(i, TRUE)],
     experience |-> [i \in 1..nExp |-> Experience(i, expBullets)],
     projects |-> [i \in 1..nProj |-> Project(i, projBullets)],
     skills |-> [Languages |-> <<"python">>]]

(***************************************************************************)
(* The documents a caller passes in: all valid, from documents already     *)
(* within the heuristic's limits up to the largest the bounds allow.       *)
(***************************************************************************)
InputDocs ==
    { ResumeData("ann", nEdu, nExp, eb, nProj, pb) :
        nEdu \in {1, MaxEducation}, nExp \in {1, MaxExperience},
        eb \in {3, MaxBullets}, nProj \in {0, 2, MaxProjects},
        pb \in {2, MaxProjBullets} }
    \cup { [ResumeData("ann", MaxEducation, 1, MaxBullets, MaxProjects, MaxProjBullets)
              EXCEPT !.education[MaxEducation] = Education(MaxEducation, FALSE)] }

OutputNames == {"cv"}

\* Variant: the project limit is three instead of two.
LimitProjects_KeepThree(projects) ==
    IF Len(projects) > 3 THEN SubSeq(projects, 1, 3) ELSE projects

\* Variant: the last bullets are kept instead of the first.
LimitBullets_KeepsLast(entry, limit) ==
    IF Len(entry.bullets) > limit
    THEN [entry EXCEPT !.bullets =
            SubSeq(entry.bullets, Len(entry.bullets) - limit + 1, Len(entry.bullets))]
    ELSE entry

\* Variant: one bullet is dropped per application instead of all the excess.
LimitBullets_DropsOne(entry, limit) ==
    IF Len(entry.bullets) > limit
    THEN [entry EXCEPT !.bullets = SubSeq(entry.bullets, 1, Len(entry.bullets) - 1)]
    ELSE entry

\* Variant: the first education entry is stripped like the others.
StripOlderEducation_StripsAll(education) ==
    IF Len(education) > 1
    THEN [i \in 1..Len(education) |->
            [education[i] EXCEPT !.gpa = None, !.additional_info = None]]
    ELSE education

\* Variant: the GPA of older entries is overwritten with a placeholder.
StripOlderEducation_Placeholder(education) ==
    IF Len(education) > 1
    THEN [i \in 1..Len(education) |->
            IF i = 1 THEN education[i]
            ELSE [education[i] EXCEPT !.gpa = Some("n/a"), !.additional_info = None]]
    ELSE education

(***************************************************************************)
(* PageOptimizer._manual_content_reduction: the four strategies in order.  *)
(***************************************************************************)
LimitProjects(projects) ==
    IF Len(projects) > 2 THEN SubSeq(projects, 1, 2) ELSE projects

LimitBullets(entry, limit) ==
    IF Len(entry.bullets) > limit
    THEN [entry EXCEPT !.bullets = SubSeq(entry.bullets, 1, limit)]
    ELSE entry

StripOlderEducation(education) ==
    IF Len(education) > 1
    THEN [i \in 1..Len(education) |->
            IF i = 1 THEN education[i]
            ELSE [education[i] EXCEPT !.gpa = None, !.additional_info = None]]
    ELSE education

ManualContentReduction(d) ==
    LET projects == LimitProjects(d.projects)
    IN [d EXCEPT
          !.projects = [i \in 1..Len(projects) |-> LimitBullets(projects[i], 2)],
          !.experience = [i \in 1..Len(d.experience) |->
                            LimitBullets(d.experience[i], 3)],
          !.education = StripOlderEducation(d.education)]

(***************************************************************************)
(* ResumeData.from_dict: pydantic validation of a parsed JSON object.      *)
(* A dict is a record; a key the JSON lacks is a field the record lacks.   *)
(***************************************************************************)
HasKeys(rec, keys) == keys \subseteq DOMAIN rec

ValidPersonalInfo(p) ==
    /\ HasKeys(p, {"name", "email", "phone"})
    /\ Len(p.phone) >= 10

ValidEducation(e) ==
    HasKeys(e, {"institution", "location", "degree", "dates"})

\* Variant: Experience.validate_bullets is missing.
ValidExperience_IgnoresBullets(e) ==
    HasKeys(e, {"title", "company", "location", "dates", "bullets"})

ValidExperience(e) ==
    /\ HasKeys(e, {"title", "company", "location", "dates", "bullets"})
    /\ Len(e.bullets) > 0

ValidProject(p) ==
    /\ HasKeys(p, {"name", "technologies", "date", "bullets"})
    /\ Len(p.bullets) > 0

ValidResumeDict(j) ==
    /\ HasKeys(j, {"personal_info", "education", "experience", "skills"})
    /\ ValidPersonalInfo(j.personal_info)
    /\ \A i \in 1..Len(j.education) : ValidEducation(j.education[i])
    /\ Len(j.education) > 0
    /\ \A i \in 1..Len(j.experience) : ValidExperience(j.experience[i])
    /\ Len(j.experience) > 0
    /\ "projects" \in DOMAIN j =>
          \A i \in 1..Len(j.projects) : ValidProject(j.projects[i])
    /\ DOMAIN j.skills # {}

EducationFromDict(e) ==
    [institution |-> e.institution, location |-> e.location,
     degree |-> e.degree, dates |-> e.dates,
     gpa |-> IF "gpa" \in DOMAIN e THEN Some(e.gpa) ELSE None,
     additional_info |-> IF "additional_info" \in DOMAIN e
                         THEN Some(e.additional_info) ELSE None]

FromDict(j) ==
    [personal_info |-> j.personal_info,
     education |-> [i \in 1..Len(j.education) |-> EducationFromDict(j.education[i])],
     experience |-> j.experience,
     projects |-> IF "projects" \in DOMAIN j THEN j.projects ELSE <<>>,
     skills |-> j.skills]

(***************************************************************************)
(* ResumeData.to_dict: model_dump(exclude_none=True).                      *)
(***************************************************************************)
EducationToDict(e) ==
    LET keys == {"institution", "location", "degree", "dates"}
                  \cup (IF e.gpa # None THEN {"gpa"} ELSE {})
                  \cup (IF e.additional_info # None THEN {"additional_info"} ELSE {})
    IN [k \in keys |->
          CASE k = "gpa" -> e.gpa[1]
            [] k = "additional_info" -> e.additional_info[1]
            [] OTHER -> e[k]]

ToDict(d) ==
    [d EXCEPT !.education = [i \in 1..Len(d.education) |->
                               EducationToDict(d.education[i])]]

(***************************************************************************)
(* ClaudeService.suggest_content_reduction.  The service's answer is the   *)
(* environment's choice: the API call raises, or it returns text; the text *)
(* holds no JSON object (_extract_json raises) or it holds one, which      *)
(* ResumeData.from_dict accepts or rejects.                                *)
(***************************************************************************)
ReducedDict == ToDict(ResumeData("ann", 1, 1, 2, 1, 1))

RewrittenDict == ToDict(ResumeData("bob", 2, 2, 4, 3, 3))

MinimalDict ==
    [personal_info |-> PersonalInfo("ann"),
     education |-> <<[institution |-> 1, location |-> 1, degree |-> 1, dates |-> 1]>>,
     experience |-> <<Experience(1, 1)>>,
     skills |-> [Languages |-> <<"python">>]]

NoEducationDict == [ReducedDict EXCEPT !.education = <<>>]

NoBulletsDict == [ReducedDict EXCEPT !.experience = <<Experience(1, 0)>>]

NoCompanyDict ==
    [ReducedDict EXCEPT !.experience =
        <<[title |-> 1, location |-> 1, dates |-> 1, bullets |-> <<1>>]>>]

NoExperienceDict == [ReducedDict EXCEPT !.experience = <<>>]

NoSkillsDict == [ReducedDict EXCEPT !.skills = [c \in {} |-> <<>>]]

ProjectNoBulletsDict == [ReducedDict EXCEPT !.projects = <<Project(1, 0)>>]

NoNameDict ==
    [ReducedDict EXCEPT !.personal_info = [email |-> "e@x.org", phone |-> "5550001111"]]

NoDegreeDict ==
    [ReducedDict EXCEPT !.education =
        <<[institution |-> 1, location |-> 1, dates |-> 1]>>]

ValidDicts == {RewrittenDict, MinimalDict}

InvalidDicts ==
    {NoEducationDict, NoBulletsDict, NoCompanyDict, NoExperienceDict,
     NoSkillsDict, ProjectNoBulletsDict, NoNameDict, NoDegreeDict}

AIAnswers ==
    {[kind |-> "api_error", json |-> None], [kind |-> "text", json |-> None]}
    \cup {[kind |-> "text", json |-> Some(j)] : j \in ValidDicts \cup InvalidDicts}

\* No request to the service is pending or remembered.
NoResponse == [kind |-> "none", json |-> None]

\* TRUE when suggest_content_reduction raises ClaudeAPIError on this answer.
ReductionRaises(answer) ==
    IF answer.kind = "api_error" THEN TRUE
    ELSE IF answer.json = None THEN TRUE
    ELSE ~ValidResumeDict(answer.json[1])

\* The ResumeData it returns otherwise.
ReductionResult(answer) == FromDict(answer.json[1])

(***************************************************************************)
(* LaTeXService: files are kept per directory, by file name.               *)
(***************************************************************************)
RenderTemplate(data) ==
    [personal_info |-> data.personal_info, education |-> data.education,
     experience |-> data.experience, projects |-> data.projects,
     skills |-> data.skills]

PdfPath(name) == "pdfs/" \o name \o ".pdf"

TexPath(name) == "generated/" \o name \o ".tex"

WriteFile(dir, path, content) ==
    [f \in DOMAIN dir \cup {path} |-> IF f = path THEN content ELSE dir[f]]

\* What one run of the toolchain does: pdflatex is missing, the compilation
\* fails, or a PDF comes out, of no page, of one page or of more than one.
PageCounts == {0, 1, 2}

CompileOutcomes ==
    {[ok |-> FALSE, why |-> "no_pdflatex", pages |-> 0],
     [ok |-> FALSE, why |-> "compile_error", pages |-> 0]}
    \cup {[ok |-> TRUE, why |-> "", pages |-> n] : n \in PageCounts}

\* compile_latex writes the .tex file before it runs pdflatex, and copies the
\* PDF into pdfs_dir only when the compilation succeeded.
GeneratedAfterCompile(gen, tex, name, outcome) ==
    IF outcome.why = "no_pdflatex" THEN gen
    ELSE WriteFile(gen, TexPath(name), tex)

PdfsAfterCompile(dir, tex, name, outcome) ==
    IF outcome.ok
    THEN WriteFile(dir, PdfPath(name), [tex |-> tex, pages |-> outcome.pages])
    ELSE dir

\* Variant: the attempt number is left out of the name.
AttemptName_NoCounter(name, i) == name \o "_attempt"

\* Variant: the output name is left out of the name.
AttemptName_NoPrefix(name, i) == "attempt_" \o ToString(i)

AttemptName(name, i) == name \o "_attempt_" \o ToString(i)

VARIABLES
    resume_data,      \* content of the document object the caller passed
    output_name, max_iterations,
    useAI,            \* the caller's wish; the signature has no such parameter
    current_data,     \* content of the working document
    current_is_input, \* current_data is the caller's object itself
    iteration, page_count, pdf_path,
    pc,               \* position in optimize_to_one_page
    result,           \* <<>> or the returned tuple
    raised,           \* "" or the class of the exception that escaped
    generated_dir, pdfs_dir,
    original,         \* content of the caller's document at the call
    renderLog,        \* invocations of render_and_compile, in order
    reduceLog,        \* invocations of the two reducers, in order
    response,         \* the AI service's answer in this iteration, if asked
    other             \* the locals of a second, suspended call, if there is one

vars == <<resume_data, output_name, max_iterations, useAI, current_data,
          current_is_input, iteration, page_count, pdf_path, pc, result,
          raised, generated_dir, pdfs_dir, original, renderLog, reduceLog,
          response, other>>

inputs == <<output_name, max_iterations, useAI, original>>

EmptyDir == [f \in {} |-> 0]

\* There is no second call.
NoCall == [pc |-> "none"]

Init ==
    /\ resume_data \in InputDocs
    /\ original = resume_data
    /\ output_name \in OutputNames
    /\ max_iterations \in -1..MaxIterations
    /\ useAI \in BOOLEAN
    /\ current_data = resume_data
    /\ current_is_input = TRUE
    /\ iteration = 0
    /\ page_count = 0
    /\ pdf_path = ""
    /\ pc = "while"
    /\ result = <<>>
    /\ raised = ""
    /\ generated_dir = EmptyDir
    /\ pdfs_dir = EmptyDir
    /\ renderLog = <<>>
    /\ reduceLog = <<>>
    /\ response = NoResponse
    /\ other = NoCall

RenderEntry(name, outcome) ==
    [name |-> name, data |-> current_data, ok |-> outcome.ok,
     pages |-> outcome.pages]

\* Variant: the loop body runs once before the budget is looked at.
LoopEnter_DoWhile ==
    /\ pc = "while"
    /\ iteration < max_iterations \/ iteration = 0
    /\ iteration' = iteration + 1
    /\ pc' = "render"
    /\ response' = NoResponse
    /\ UNCHANGED <<resume_data, inputs, other, current_data, current_is_input,
                   page_count, pdf_path, result, raised, generated_dir,
                   pdfs_dir, renderLog, reduceLog>>

\* while iteration < max_iterations: iteration += 1
LoopEnter ==
    /\ pc = "while"
    /\ iteration < max_iterations
    /\ iteration' = iteration + 1
    /\ pc' = "render"
    /\ response' = NoResponse
    /\ UNCHANGED <<resume_data, inputs, other, current_data, current_is_input,
                   page_count, pdf_path, result, raised, generated_dir,
                   pdfs_dir, renderLog, reduceLog>>

\* the loop condition is false: fall out of the loop
LoopExit ==
    /\ pc = "while"
    /\ ~(iteration < max_iterations)
    /\ pc' = "final"
    /\ UNCHANGED <<response, resume_data, inputs, other, current_data, current_is_input,
                   iteration, page_count, pdf_path, result, raised,
                   generated_dir, pdfs_dir, renderLog, reduceLog>>

\* Variant: a failed compilation is swallowed and the loop goes on reducing.
RenderAttempt_SwallowsFailure ==
    /\ pc = "render"
    /\ \E outcome \in CompileOutcomes :
         LET name == AttemptName(output_name, iteration)
             tex == RenderTemplate(current_data)
         IN /\ generated_dir' = GeneratedAfterCompile(generated_dir, tex, name, outcome)
            /\ pdfs_dir' = PdfsAfterCompile(pdfs_dir, tex, name, outcome)
            /\ renderLog' = Append(renderLog, RenderEntry(name, outcome))
            /\ IF outcome.ok
               THEN /\ pdf_path' = PdfPath(name)
                    /\ page_count' = outcome.pages
               ELSE /\ pdf_path' = pdf_path
                    /\ page_count' = 2
            /\ pc' = "check"
    /\ UNCHANGED <<response, resume_data, inputs, other, current_data, current_is_input,
                   iteration, result, raised, reduceLog>>

\* render_and_compile(current_data, f"{output_name}_attempt_{iteration}")
RenderAttempt ==
    /\ pc = "render"
    /\ \E outcome \in CompileOutcomes :
         LET name == AttemptName(output_name, iteration)
             tex == RenderTemplate(current_data)
         IN /\ generated_dir' = GeneratedAfterCompile(generated_dir, tex, name, outcome)
            /\ pdfs_dir' = PdfsAfterCompile(pdfs_dir, tex, name, outcome)
            /\ renderLog' = Append(renderLog, RenderEntry(name, outcome))
            /\ IF outcome.ok
               THEN /\ pdf_path' = PdfPath(name)
                    /\ page_count' = outcome.pages
                    /\ pc' = "check"
                    /\ UNCHANGED raised
               ELSE /\ raised' = "OptimizationError"
                    /\ pc' = "raised"
                    /\ UNCHANGED <<pdf_path, page_count>>
    /\ UNCHANGED <<response, resume_data, inputs, other, current_data, current_is_input,
                   iteration, result, reduceLog>>

\* Variant: the success test is page_count <= 1.
Succeed_AtMostOnePage ==
    /\ pc = "check"
    /\ page_count <= 1
    /\ pdfs_dir' = WriteFile(pdfs_dir, PdfPath(output_name), pdfs_dir[pdf_path])
    /\ generated_dir' = WriteFile(generated_dir, TexPath(output_name),
                                  RenderTemplate(current_data))
    /\ result' = <<current_data, PdfPath(output_name)>>
    /\ pc' = "done_success"
    /\ UNCHANGED <<response, resume_data, inputs, other, current_data, current_is_input,
                   iteration, page_count, pdf_path, raised, renderLog,
                   reduceLog>>

\* Variant: the attempt's own PDF path is returned and nothing is copied.
Succeed_ReturnsAttemptPdf ==
    /\ pc = "check"
    /\ page_count = 1
    /\ generated_dir' = WriteFile(generated_dir, TexPath(output_name),
                                  RenderTemplate(current_data))
    /\ result' = <<current_data, pdf_path>>
    /\ pc' = "done_success"
    /\ UNCHANGED <<response, resume_data, inputs, other, current_data, current_is_input,
                   iteration, page_count, pdf_path, raised, pdfs_dir,
                   renderLog, reduceLog>>

\* page_count == 1: copy the PDF and save the .tex under output_name, return
Succeed ==
    /\ pc = "check"
    /\ page_count = 1
    /\ pdfs_dir' = WriteFile(pdfs_dir, PdfPath(output_name), pdfs_dir[pdf_path])
    /\ generated_dir' = WriteFile(generated_dir, TexPath(output_name),
                                  RenderTemplate(current_data))
    /\ result' = <<current_data, PdfPath(output_name)>>
    /\ pc' = "done_success"
    /\ UNCHANGED <<response, resume_data, inputs, other, current_data, current_is_input,
                   iteration, page_count, pdf_path, raised, renderLog,
                   reduceLog>>

\* page_count < 1: raise OptimizationError("Resume is empty or invalid")
RaiseEmpty ==
    /\ pc = "check"
    /\ page_count # 1
    /\ page_count < 1
    /\ raised' = "OptimizationError"
    /\ pc' = "raised"
    /\ UNCHANGED <<response, resume_data, inputs, other, current_data, current_is_input,
                   iteration, page_count, pdf_path, result, generated_dir,
                   pdfs_dir, renderLog, reduceLog>>

\* Variant: the last failed attempt is followed by a heuristic reduction too.
BreakLastAttempt_ReducesFirst ==
    /\ pc = "check"
    /\ page_count # 1 /\ ~(page_count < 1)
    /\ iteration >= max_iterations
    /\ current_data' = ManualContentReduction(current_data)
    /\ resume_data' = IF current_is_input THEN current_data' ELSE resume_data
    /\ reduceLog' = Append(reduceLog, "manual")
    /\ pc' = "final"
    /\ UNCHANGED <<response, inputs, other, current_is_input, iteration, page_count,
                   pdf_path, result, raised, generated_dir, pdfs_dir, renderLog>>

\* Variant: the last failed attempt raises, as the docstring announces.
BreakLastAttempt_Raises ==
    /\ pc = "check"
    /\ page_count # 1 /\ ~(page_count < 1)
    /\ iteration >= max_iterations
    /\ raised' = "OptimizationError"
    /\ pc' = "raised"
    /\ UNCHANGED <<response, resume_data, inputs, other, current_data, current_is_input,
                   iteration, page_count, pdf_path, result, generated_dir,
                   pdfs_dir, renderLog, reduceLog>>

\* too many pages and iteration >= max_iterations: break
BreakLastAttempt ==
    /\ pc = "check"
    /\ page_count # 1 /\ ~(page_count < 1)
    /\ iteration >= max_iterations
    /\ pc' = "final"
    /\ UNCHANGED <<response, resume_data, inputs, other, current_data, current_is_input,
                   iteration, page_count, pdf_path, result, raised,
                   generated_dir, pdfs_dir, renderLog, reduceLog>>

\* Variant: the AI reducer is asked after the last attempt as well.
ReduceWithClaude_OnLastAttempt ==
    /\ pc = "check"
    /\ page_count # 1 /\ ~(page_count < 1)
    /\ \E answer \in AIAnswers :
         /\ ~ReductionRaises(answer)
         /\ current_data' = ReductionResult(answer)
         /\ response' = answer
    /\ current_is_input' = FALSE
    /\ reduceLog' = Append(reduceLog, "claude_returned")
    /\ pc' = "while"
    /\ UNCHANGED <<resume_data, inputs, other, iteration, page_count, pdf_path,
                   result, raised, generated_dir, pdfs_dir, renderLog>>

\* too many pages, attempts remain: suggest_content_reduction returns
ReduceWithClaude ==
    /\ pc = "check"
    /\ page_count # 1 /\ ~(page_count < 1)
    /\ ~(iteration >= max_iterations)
    /\ \E answer \in AIAnswers :
         /\ ~ReductionRaises(answer)
         /\ current_data' = ReductionResult(answer)
         /\ response' = answer
    /\ current_is_input' = FALSE
    /\ reduceLog' = Append(reduceLog, "claude_returned")
    /\ pc' = "while"
    /\ UNCHANGED <<resume_data, inputs, other, iteration, page_count, pdf_path,
                   result, raised, generated_dir, pdfs_dir, renderLog>>

\* Variant: the handler applies the heuristic twice.
ReduceManually_Twice ==
    /\ pc = "check"
    /\ page_count # 1 /\ ~(page_count < 1)
    /\ ~(iteration >= max_iterations)
    /\ \E answer \in AIAnswers : ReductionRaises(answer) /\ response' = answer
    /\ current_data' = ManualContentReduction(ManualContentReduction(current_data))
    /\ resume_data' = IF current_is_input THEN current_data' ELSE resume_data
    /\ reduceLog' = reduceLog \o <<"claude_raised", "manual", "manual">>
    /\ pc' = "while"
    /\ UNCHANGED <<inputs, other, current_is_input, iteration, page_count, pdf_path,
                   result, raised, generated_dir, pdfs_dir, renderLog>>

\* Variant: one page counts as too long as well (the test is page_count >= 1).
ReduceManually_FromOnePage ==
    /\ pc = "check"
    /\ page_count >= 1
    /\ ~(iteration >= max_iterations)
    /\ \E answer \in AIAnswers : ReductionRaises(answer) /\ response' = answer
    /\ current_data' = ManualContentReduction(current_data)
    /\ resume_data' = IF current_is_input THEN current_data' ELSE resume_data
    /\ reduceLog' = reduceLog \o <<"claude_raised", "manual">>
    /\ pc' = "while"
    /\ UNCHANGED <<inputs, other, current_is_input, iteration, page_count, pdf_path,
                   result, raised, generated_dir, pdfs_dir, renderLog>>

\* Variant: no fallback, the failure of the AI call ends the call.
ReduceManually_Propagates ==
    /\ pc = "check"
    /\ page_count # 1 /\ ~(page_count < 1)
    /\ ~(iteration >= max_iterations)
    /\ \E answer \in AIAnswers : ReductionRaises(answer) /\ response' = answer
    /\ reduceLog' = Append(reduceLog, "claude_raised")
    /\ raised' = "OptimizationError"
    /\ pc' = "raised"
    /\ UNCHANGED <<resume_data, inputs, other, current_data, current_is_input,
                   iteration, page_count, pdf_path, result, generated_dir,
                   pdfs_dir, renderLog>>

\* Variant: the AI call is skipped when the caller does not want it.
ReduceManually_HonoursUseAI ==
    /\ pc = "check"
    /\ page_count # 1 /\ ~(page_count < 1)
    /\ ~(iteration >= max_iterations)
    /\ IF useAI
       THEN \E answer \in AIAnswers : ReductionRaises(answer) /\ response' = answer
       ELSE response' = NoResponse
    /\ current_data' = ManualContentReduction(current_data)
    /\ resume_data' = IF current_is_input THEN current_data' ELSE resume_data
    /\ reduceLog' = reduceLog \o (IF useAI THEN <<"claude_raised", "manual">>
                                  ELSE <<"manual">>)
    /\ pc' = "while"
    /\ UNCHANGED <<inputs, other, current_is_input, iteration, page_count, pdf_path,
                   result, raised, generated_dir, pdfs_dir, renderLog>>

\* too many pages, attempts remain: suggest_content_reduction raises and the
\* handler applies _manual_content_reduction to the working document in place
ReduceManually ==
    /\ pc = "check"
    /\ page_count # 1 /\ ~(page_count < 1)
    /\ ~(iteration >= max_iterations)
    /\ \E answer \in AIAnswers : ReductionRaises(answer) /\ response' = answer
    /\ current_data' = ManualContentReduction(current_data)
    /\ resume_data' = IF current_is_input THEN current_data' ELSE resume_data
    /\ reduceLog' = reduceLog \o <<"claude_raised", "manual">>
    /\ pc' = "while"
    /\ UNCHANGED <<inputs, other, current_is_input, iteration, page_count, pdf_path,
                   result, raised, generated_dir, pdfs_dir, renderLog>>

\* Variant: the final render compiles the caller's document, not the working one.
SaveBestAttempt_RendersInput ==
    /\ pc = "final"
    /\ \E outcome \in CompileOutcomes :
         LET tex == RenderTemplate(original)
         IN /\ generated_dir' = GeneratedAfterCompile(generated_dir, tex,
                                                      output_name, outcome)
            /\ pdfs_dir' = PdfsAfterCompile(pdfs_dir, tex, output_name, outcome)
            /\ renderLog' = Append(renderLog, RenderEntry(output_name, outcome))
            /\ IF outcome.ok
               THEN /\ pdf_path' = PdfPath(output_name)
                    /\ page_count' = outcome.pages
                    /\ result' = <<current_data, pdf_path'>>
                    /\ pc' = "done_best_effort"
                    /\ UNCHANGED raised
               ELSE /\ raised' = "LaTeXCompilationError"
                    /\ pc' = "raised"
                    /\ UNCHANGED <<pdf_path, page_count, result>>
    /\ UNCHANGED <<response, resume_data, inputs, other, current_data, current_is_input,
                   iteration, reduceLog>>

\* after the loop: render_and_compile(current_data, output_name), not guarded
\* by any try, then return current_data, pdf_path
SaveBestAttempt ==
    /\ pc = "final"
    /\ \E outcome \in CompileOutcomes :
         LET tex == RenderTemplate(current_data)
         IN /\ generated_dir' = GeneratedAfterCompile(generated_dir, tex,
                                                      output_name, outcome)
            /\ pdfs_dir' = PdfsAfterCompile(pdfs_dir, tex, output_name, outcome)
            /\ renderLog' = Append(renderLog, RenderEntry(output_name, outcome))
            /\ IF outcome.ok
               THEN /\ pdf_path' = PdfPath(output_name)
                    /\ page_count' = outcome.pages
                    /\ result' = <<current_data, pdf_path'>>
                    /\ pc' = "done_best_effort"
                    /\ UNCHANGED raised
               ELSE /\ raised' = "LaTeXCompilationError"
                    /\ pc' = "raised"
                    /\ UNCHANGED <<pdf_path, page_count, result>>
    /\ UNCHANGED <<response, resume_data, inputs, other, current_data, current_is_input,
                   iteration, reduceLog>>

Next ==
    \/ LoopEnter
    \/ LoopExit
    \/ RenderAttempt
    \/ Succeed
    \/ RaiseEmpty
    \/ BreakLastAttempt
    \/ ReduceWithClaude
    \/ ReduceManually
    \/ SaveBestAttempt

Spec == Init /\ [][Next]_vars

\* The call is a sequential program whose collaborators return or raise:
\* whenever a step is possible, a step is taken.
\* Termination does not depend on the content of the document: a document
\* within the heuristic's limits and the two largest ones stand for all.
BudgetDocs ==
    {ResumeData("ann", 1, 1, 3, 0, 2),
     ResumeData("ann", MaxEducation, MaxExperience, MaxBullets, MaxProjects, MaxProjBullets),
     [ResumeData("ann", MaxEducation, 1, MaxBullets, MaxProjects, MaxProjBullets)
        EXCEPT !.education[MaxEducation] = Education(MaxEducation, FALSE)]}

FairInit == Init /\ resume_data \in BudgetDocs

FairSpec == FairInit /\ [][Next]_vars /\ WF_vars(Next)

(***************************************************************************)
(* _manual_content_reduction on its own: it is called on a valid document, *)
(* and again on the object it returned (the object it was given, changed   *)
(* in place), up to MaxApplications times.                                 *)
(***************************************************************************)
MaxApplications == 2

BulletChoices == {1, 3, MaxBullets}

ProjBulletChoices == {1, 2, MaxProjBullets}

EducationLists ==
    UNION { { [i \in 1..n |-> Education(i, extras[i])] : extras \in [1..n -> BOOLEAN] } :
            n \in 1..MaxEducation }

ExperienceLists ==
    UNION { { [i \in 1..n |-> Experience(i, nb[i])] : nb \in [1..n -> BulletChoices] } :
            n \in 1..MaxExperience }

ProjectLists ==
    UNION { { [i \in 1..n |-> Project(i, nb[i])] : nb \in [1..n -> ProjBulletChoices] } :
            n \in 0..MaxProjects }

UniformProjectLists ==
    { [i \in 1..n |-> Project(i, nb)] : n \in 0..MaxProjects, nb \in ProjBulletChoices }

ReducerDocs ==
    { [ResumeData("ann", 1, 1, 1, 0, 1) EXCEPT
          !.education = edu, !.experience = exp, !.projects = proj] :
        edu \in EducationLists, exp \in ExperienceLists,
        proj \in UniformProjectLists }
    \cup
    { [ResumeData("ann", MaxEducation, 1, MaxBullets, 0, 1) EXCEPT
          !.projects = proj] : proj \in ProjectLists }

ReduceInit ==
    /\ resume_data \in ReducerDocs
    /\ original = resume_data
    /\ output_name \in OutputNames
    /\ max_iterations = 0
    /\ useAI = FALSE
    /\ current_data = resume_data
    /\ current_is_input = TRUE
    /\ iteration = 0
    /\ page_count = 0
    /\ pdf_path = ""
    /\ pc = "manual"
    /\ result = <<>>
    /\ raised = ""
    /\ generated_dir = EmptyDir
    /\ pdfs_dir = EmptyDir
    /\ renderLog = <<>>
    /\ reduceLog = <<>>
    /\ response = NoResponse
    /\ other = NoCall

\* one call of _manual_content_reduction(current_data); result is what it returned
ApplyManual ==
    /\ pc = "manual"
    /\ Len(reduceLog) < MaxApplications
    /\ current_data' = ManualContentReduction(current_data)
    /\ resume_data' = IF current_is_input THEN current_data' ELSE resume_data
    /\ result' = <<current_data'>>
    /\ reduceLog' = Append(reduceLog, "manual")
    /\ UNCHANGED <<response, inputs, other, current_is_input, iteration, page_count,
                   pdf_path, pc, raised, generated_dir, pdfs_dir, renderLog>>

ReduceNext == ApplyManual

SpecReduce == ReduceInit /\ [][ReduceNext]_vars

(***************************************************************************)
(* Two calls of optimize_to_one_page against one LaTeXService (the same    *)
(* generated/ and pdfs/ directories), interleaved step by step.  The       *)
(* variables of the call hold the locals of the call that is running;      *)
(* other holds the locals of the call that is waiting.                     *)
(***************************************************************************)
Locals ==
    [resume_data |-> resume_data, output_name |-> output_name,
     max_iterations |-> max_iterations, useAI |-> useAI,
     current_data |-> current_data, current_is_input |-> current_is_input,
     iteration |-> iteration, page_count |-> page_count, pdf_path |-> pdf_path,
     pc |-> pc, result |-> result, raised |-> raised, original |-> original,
     renderLog |-> renderLog, reduceLog |-> reduceLog, response |-> response]

\* The locals of a call that has just been entered.
EntryLocals(data, name, budget) ==
    [resume_data |-> data, output_name |-> name, max_iterations |-> budget,
     useAI |-> TRUE, current_data |-> data, current_is_input |-> TRUE,
     iteration |-> 0, page_count |-> 0, pdf_path |-> "", pc |-> "while",
     result |-> <<>>, raised |-> "", original |-> data, renderLog |-> <<>>,
     reduceLog |-> <<>>, response |-> NoResponse]

\* The budgets of the two calls: none (the loop is skipped) or two attempts.
TwoCallBudgets == {0, 2}

\* The output name of the second call: unrelated to the first call's "cv",
\* or spelled like the first call's first attempt.
SecondNames == {"job", "cv_attempt_1"}

TwoCallsInit ==
    /\ resume_data = ResumeData("ann", 1, 1, 3, 0, 2)
    /\ original = resume_data
    /\ output_name = "cv"
    /\ max_iterations \in TwoCallBudgets
    /\ useAI = TRUE
    /\ current_data = resume_data
    /\ current_is_input = TRUE
    /\ iteration = 0
    /\ page_count = 0
    /\ pdf_path = ""
    /\ pc = "while"
    /\ result = <<>>
    /\ raised = ""
    /\ generated_dir = EmptyDir
    /\ pdfs_dir = EmptyDir
    /\ renderLog = <<>>
    /\ reduceLog = <<>>
    /\ response = NoResponse
    /\ other \in { EntryLocals(ResumeData("cat", 1, 1, 3, 0, 2), name, budget) :
                     name \in SecondNames, budget \in TwoCallBudgets }

\* The running call is suspended and the waiting call goes on; a call that
\* has returned or raised is not resumed.
ContextSwitch ==
    /\ other.pc \notin {"none", "done_success", "done_best_effort", "raised"}
    /\ other' = Locals
    /\ resume_data' = other.resume_data
    /\ output_name' = other.output_name
    /\ max_iterations' = other.max_iterations
    /\ useAI' = other.useAI
    /\ current_data' = other.current_data
    /\ current_is_input' = other.current_is_input
    /\ iteration' = other.iteration
    /\ page_count' = other.page_count
    /\ pdf_path' = other.pdf_path
    /\ pc' = other.pc
    /\ result' = other.result
    /\ raised' = other.raised
    /\ original' = other.original
    /\ renderLog' = other.renderLog
    /\ reduceLog' = other.reduceLog
    /\ response' = other.response
    /\ UNCHANGED <<generated_dir, pdfs_dir>>

TwoCallsNext == Next \/ ContextSwitch

SpecTwoCalls == TwoCallsInit /\ [][TwoCallsNext]_vars

(***************************************************************************)
(* Vocabulary of the properties.                                           *)
(***************************************************************************)
Returned == pc \in {"done_success", "done_best_effort"}

Terminated == Returned \/ pc = "raised"

\* Invocations of the AI reducer and of the heuristic reducer so far.
ClaudeCalls ==
    Cardinality({i \in DOMAIN reduceLog :
                    reduceLog[i] \in {"claude_returned", "claude_raised"}})

ManualCalls == Cardinality({i \in DOMAIN reduceLog : reduceLog[i] = "manual"})

ClaudeNeverReturned == \A i \in DOMAIN reduceLog : reduceLog[i] # "claude_returned"

\* Render i of the call is loop attempt i (and not the final render).
IsAttempt(i) == renderLog[i].name = AttemptName(output_name, i)

IsFinalRender(i) == renderLog[i].name = output_name

TooLong(i) == renderLog[i].ok /\ renderLog[i].pages > 1

RECURSIVE ManualTimes(_, _)
ManualTimes(d, n) ==
    IF n = 0 THEN d ELSE ManualContentReduction(ManualTimes(d, n - 1))

(***************************************************************************)
(* C1: when the first attempt of a call (max_iterations >= 1) measures     *)
(* exactly one page, the call can only return success: it is in iteration  *)
(* 1, has rendered once, under the attempt-1 name, has invoked neither     *)
(* reducer, and the document it returns is the caller's, unchanged.        *)
(***************************************************************************)
C1_OnePageAtFirstAttempt ==
    (/\ max_iterations >= 1
     /\ Len(renderLog) >= 1
     /\ renderLog[1].ok
     /\ renderLog[1].pages = 1)
    => /\ pc \in {"check", "done_success"}
       /\ iteration = 1
       /\ Len(renderLog) = 1
       /\ renderLog[1].name = AttemptName(output_name, 1)
       /\ renderLog[1].data = original
       /\ reduceLog = <<>>
       /\ raised = ""
       /\ current_data = original
       /\ resume_data = original
       /\ pc = "done_success" => result[1] = original

C1_Witness ==
    /\ pc = "done_success"
    /\ Len(renderLog) = 1
    /\ renderLog[1].pages = 1
    /\ Len(original.projects) = MaxProjects
    /\ result[1] = original

C3_ResultCarriesSuccessFlag ==
    (max_iterations >= 1 /\ Returned)
    => /\ Len(result) = 5
       /\ result[5] = (pc = "done_success")

(***************************************************************************)
(* C3, amended: in both terminal states the returned value is the pair     *)
(* (working document, path of the PDF stored under the plain output name); *)
(* it has no further component, so nothing in it tells success from        *)
(* best-effort.  Nothing is returned in any other state.                   *)
(***************************************************************************)
C3_ResultIsDocumentAndFinalPath ==
    /\ Returned => result = <<current_data, PdfPath(output_name)>>
    /\ ~Returned => result = <<>>

C3_Witness ==
    /\ pc = "done_best_effort"
    /\ max_iterations >= 1
    /\ page_count > 1
    /\ result = <<current_data, PdfPath(output_name)>>

(***************************************************************************)
(* C4: a render that fails in loop iteration i is the last thing the call  *)
(* does: OptimizationError is raised, the failed render stays the last     *)
(* render, the reducers were invoked for attempts 1..i-1 only, and nothing *)
(* is returned.                                                            *)
(***************************************************************************)
C4_RenderFailureInLoopIsFatal ==
    \A i \in DOMAIN renderLog :
        (IsAttempt(i) /\ ~renderLog[i].ok)
        => /\ pc = "raised"
           /\ raised = "OptimizationError"
           /\ i = Len(renderLog)
           /\ i = iteration
           /\ ClaudeCalls = i - 1
           /\ ManualCalls <= i - 1
           /\ result = <<>>

C4_Witness ==
    /\ pc = "raised"
    /\ Len(renderLog) = 3
    /\ ~renderLog[3].ok
    /\ IsAttempt(3)
    /\ ClaudeCalls = 2

(***************************************************************************)
(* C5, as claimed: whatever escapes a call (max_iterations >= 1) is an     *)
(* OptimizationError, also when the final render of the best-effort        *)
(* finalization fails.                                                     *)
(***************************************************************************)
C5_OnlyOptimizationErrorEscapes ==
    (max_iterations >= 1 /\ pc = "raised") => raised = "OptimizationError"

(***************************************************************************)
(* C6: a loop attempt that measures less than one page is the last render  *)
(* of the call: OptimizationError is raised in that iteration, no reducer  *)
(* runs for it, nothing is returned, and nothing is stored under the plain *)
(* output name.                                                            *)
(***************************************************************************)
C6_EmptyDocumentIsFatal ==
    \A i \in DOMAIN renderLog :
        (IsAttempt(i) /\ renderLog[i].ok /\ renderLog[i].pages < 1)
        => /\ pc \in {"check", "raised"}
           /\ pc = "raised" => raised = "OptimizationError"
           /\ i = Len(renderLog)
           /\ i = iteration
           /\ ClaudeCalls = i - 1
           /\ ManualCalls <= i - 1
           /\ result = <<>>
           /\ PdfPath(output_name) \notin DOMAIN pdfs_dir
           /\ TexPath(output_name) \notin DOMAIN generated_dir

C6_Witness ==
    /\ pc = "raised"
    /\ raised = "OptimizationError"
    /\ Len(renderLog) = 2
    /\ renderLog[2].ok
    /\ renderLog[2].pages = 0

(***************************************************************************)
(* C7: while every invocation of the AI reducer has raised, each of them   *)
(* was followed by the heuristic reducer on the working document (which is *)
(* the caller's document reduced that many times), the loop went on to the *)
(* next attempt, and the call raises only for a failed render or a page    *)
(* count below one, never for the AI failure.                              *)
(***************************************************************************)
C7_ClaudeFailureFallsBack ==
    (ClaudeCalls >= 1 /\ ClaudeNeverReturned)
    => /\ ManualCalls = ClaudeCalls
       /\ \A i \in DOMAIN reduceLog :
             reduceLog[i] = "claude_raised" =>
                 i < Len(reduceLog) /\ reduceLog[i + 1] = "manual"
       /\ current_data = ManualTimes(original, ManualCalls)
       /\ pc = "while" => iteration = ClaudeCalls
       /\ pc # "while" => iteration = ClaudeCalls + 1
       /\ pc \notin {"while", "render"} => Len(renderLog) >= ClaudeCalls + 1
       /\ pc = "raised" =>
             LET last == renderLog[Len(renderLog)]
             IN ~last.ok \/ last.pages < 1

C7_Witness ==
    /\ pc = "done_success"
    /\ ClaudeNeverReturned
    /\ ClaudeCalls = MaxIterations - 1
    /\ ManualCalls = MaxIterations - 1

(***************************************************************************)
(* C8: when attempts 1..k-1 measured more than one page and attempt k      *)
(* (k <= max_iterations) measures one page, the call returns success in    *)
(* iteration k after k renders and k-1 reduction steps; if k >= 2 and each *)
(* step fell back to the heuristic, the returned document has at most 2    *)
(* projects and at most 3 bullets in every experience entry.               *)
(***************************************************************************)
C8_SuccessAtAttemptK ==
    \A k \in DOMAIN renderLog :
        (/\ IsAttempt(k)
         /\ renderLog[k].ok
         /\ renderLog[k].pages = 1)
        => /\ k <= max_iterations
           /\ \A i \in 1..(k - 1) : IsAttempt(i) /\ TooLong(i)
           /\ pc \in {"check", "done_success"}
           /\ iteration = k
           /\ Len(renderLog) = k
           /\ ClaudeCalls = k - 1
           /\ raised = ""
           /\ (pc = "done_success" /\ k >= 2 /\ ClaudeNeverReturned) =>
                 /\ ManualCalls = k - 1
                 /\ Len(result[1].projects) <= 2
                 /\ \A e \in DOMAIN result[1].experience :
                       Len(result[1].experience[e].bullets) <= 3

C8_Witness ==
    /\ pc = "done_success"
    /\ iteration = 4
    /\ Len(renderLog) = 4
    /\ ClaudeNeverReturned
    /\ Len(original.projects) = 4
    /\ Len(original.projects[1].bullets) = 2
    /\ Len(original.experience) = 3
    /\ Len(original.experience[1].bullets) = 5
    /\ Len(result[1].projects) = 2
    /\ Len(result[1].experience[3].bullets) = 3

(***************************************************************************)
(* C9, as claimed: when the caller does not want the AI (useAI false), the *)
(* AI reducer is never invoked during the call.                            *)
(***************************************************************************)
C9_NoClaudeCallWithoutUseAI ==
    ~useAI => ClaudeCalls = 0

(***************************************************************************)
(* C9, amended: the call has no useAI input.  Whatever the caller wants,   *)
(* every reduction step invokes the AI reducer first (one invocation per   *)
(* attempt that was too long and not the last), and the heuristic reducer  *)
(* runs only right after an invocation of the AI reducer that raised.      *)
(***************************************************************************)
C9_ClaudeAlwaysTriedFirst ==
    /\ \A i \in DOMAIN reduceLog :
          reduceLog[i] = "manual" => i > 1 /\ reduceLog[i - 1] = "claude_raised"
    /\ ClaudeCalls =
          Cardinality({i \in DOMAIN renderLog :
                          /\ IsAttempt(i) /\ TooLong(i) /\ i < max_iterations
                          /\ ~(i = Len(renderLog) /\ pc = "check")})

C9_Witness ==
    /\ ~useAI
    /\ pc = "done_best_effort"
    /\ ClaudeCalls = 2
    /\ ManualCalls = 1

(***************************************************************************)
(* C10: on every normal return the PDF and the .tex stored under the plain *)
(* output name are the compilation and the rendering of the returned       *)
(* document; on success that PDF has one page and equals the PDF of the    *)
(* successful attempt.                                                     *)
(***************************************************************************)
C10_FinalArtifactIsReturnedDocument ==
    Returned =>
        /\ result[2] \in DOMAIN pdfs_dir
        /\ result[2] = PdfPath(output_name)
        /\ pdfs_dir[PdfPath(output_name)].tex = RenderTemplate(result[1])
        /\ TexPath(output_name) \in DOMAIN generated_dir
        /\ generated_dir[TexPath(output_name)] = RenderTemplate(result[1])
        /\ pc = "done_success" =>
              /\ pdfs_dir[PdfPath(output_name)].pages = 1
              /\ pdfs_dir[PdfPath(output_name)] =
                    pdfs_dir[PdfPath(AttemptName(output_name, iteration))]

C10_Witness ==
    /\ pc = "done_success"
    /\ iteration >= 2
    /\ reduceLog[Len(reduceLog)] = "claude_returned"
    /\ result[1] # original
    /\ pdfs_dir[PdfPath(output_name)].tex = RenderTemplate(result[1])

(***************************************************************************)
(* Vocabulary of the properties of the heuristic reducer.                  *)
(***************************************************************************)
Min(a, b) == IF a < b THEN a ELSE b

\* out's bullets are the first min(limit, n) bullets of in, in order.
FirstBullets(out, in, limit) ==
    /\ Len(out.bullets) = Min(limit, Len(in.bullets))
    /\ \A b \in 1..Len(out.bullets) : out.bullets[b] = in.bullets[b]

\* The limits the heuristic reducer enforces.
WithinLimits(d) ==
    /\ Len(d.projects) <= 2
    /\ \A i \in DOMAIN d.projects : Len(d.projects[i].bullets) <= 2
    /\ \A i \in DOMAIN d.experience : Len(d.experience[i].bullets) <= 3
    /\ \A i \in DOMAIN d.education :
          i > 1 => d.education[i].gpa = None /\ d.education[i].additional_info = None

(***************************************************************************)
(* C11: the heuristic reducer, given a valid document, returns one with    *)
(* the same number (>= 1) of education entries and of experience entries,  *)
(* at least one bullet in every experience and project entry, and the GPA  *)
(* and additional notes of the first education entry as they were.         *)
(***************************************************************************)
C11_ReducerKeepsMinimums ==
    Len(reduceLog) >= 1 =>
        LET out == result[1]
        IN /\ Len(out.education) >= 1
           /\ Len(out.education) = Len(original.education)
           /\ Len(out.experience) >= 1
           /\ Len(out.experience) = Len(original.experience)
           /\ \A i \in DOMAIN out.experience : Len(out.experience[i].bullets) >= 1
           /\ \A i \in DOMAIN out.projects : Len(out.projects[i].bullets) >= 1
           /\ out.education[1].gpa = original.education[1].gpa
           /\ out.education[1].additional_info = original.education[1].additional_info

C11_Witness ==
    /\ Len(reduceLog) = 1
    /\ Len(original.education) = MaxEducation
    /\ original.education[1].gpa # None
    /\ original.education[2].gpa # None
    /\ result[1].education[2].gpa = None
    /\ result[1].education[1].gpa = original.education[1].gpa
    /\ Len(original.projects) = MaxProjects
    /\ Len(original.experience[1].bullets) = 1

(***************************************************************************)
(* C12: the document the heuristic reducer returns is the reference one:   *)
(* the first min(2, n) projects in order, each with its first min(2, n)    *)
(* bullets; every experience entry with its first min(3, n) bullets; every *)
(* education entry after the first without GPA and notes; identity,        *)
(* skills and every other scalar field as in the input.                    *)
(***************************************************************************)
C12_ReducerMatchesReference ==
    Len(reduceLog) = 1 =>
        LET out == result[1]
            in == original
        IN /\ DOMAIN out = DOMAIN in
           /\ out.personal_info = in.personal_info
           /\ out.skills = in.skills
           /\ Len(out.projects) = Min(2, Len(in.projects))
           /\ \A i \in 1..Len(out.projects) :
                 /\ out.projects[i].name = in.projects[i].name
                 /\ out.projects[i].technologies = in.projects[i].technologies
                 /\ out.projects[i].date = in.projects[i].date
                 /\ FirstBullets(out.projects[i], in.projects[i], 2)
           /\ Len(out.experience) = Len(in.experience)
           /\ \A i \in 1..Len(out.experience) :
                 /\ out.experience[i].title = in.experience[i].title
                 /\ out.experience[i].company = in.experience[i].company
                 /\ out.experience[i].location = in.experience[i].location
                 /\ out.experience[i].dates = in.experience[i].dates
                 /\ FirstBullets(out.experience[i], in.experience[i], 3)
           /\ Len(out.education) = Len(in.education)
           /\ out.education[1] = in.education[1]
           /\ \A i \in 2..Len(out.education) :
                 /\ out.education[i].institution = in.education[i].institution
                 /\ out.education[i].location = in.education[i].location
                 /\ out.education[i].degree = in.education[i].degree
                 /\ out.education[i].dates = in.education[i].dates
                 /\ out.education[i].gpa = None
                 /\ out.education[i].additional_info = None
           /\ resume_data = out

C12_Witness ==
    /\ Len(reduceLog) = 1
    /\ Len(original.projects) = MaxProjects
    /\ Len(original.projects[1].bullets) = MaxProjBullets
    /\ Len(original.projects[2].bullets) = 1
    /\ Len(result[1].projects) = 2
    /\ result[1].projects[1].bullets = <<1, 2>>
    /\ result[1].projects[2].bullets = <<1>>

(***************************************************************************)
(* C13: the heuristic reducer is idempotent: applied to a document it      *)
(* returned, or to a document already within its limits, it changes        *)
(* nothing.                                                                *)
(***************************************************************************)
C13_ReducerIdempotent ==
    [][(pc = "manual" /\ (Len(reduceLog) >= 1 \/ WithinLimits(current_data)))
        => (current_data' = current_data /\ resume_data' = resume_data)]_vars

C13_Witness ==
    /\ pc = "manual"
    /\ Len(reduceLog) = 2
    /\ result[1] # original
    /\ Len(original.experience[1].bullets) = MaxBullets

(***************************************************************************)
(* C14, as claimed: when the first attempt of a call (max_iterations >= 1) *)
(* measures more than one page, the returned document is a fixed point of  *)
(* the heuristic reducer.                                                  *)
(***************************************************************************)
C14_ReturnedIsHeuristicFixedPoint ==
    (/\ max_iterations >= 1
     /\ Returned
     /\ TooLong(1))
    => ManualContentReduction(result[1]) = result[1]

(***************************************************************************)
(* C14, amended: the returned document is a fixed point of the heuristic   *)
(* reducer, and within its limits, when the last reduction step of the     *)
(* call was the heuristic's.  (A call with max_iterations = 1 reduces      *)
(* nothing, and a document the AI reducer returned last is returned as it  *)
(* came.)                                                                  *)
(***************************************************************************)
C14_FixedPointAfterHeuristicStep ==
    (/\ Returned
     /\ reduceLog # <<>>
     /\ reduceLog[Len(reduceLog)] = "manual")
    => /\ ManualContentReduction(result[1]) = result[1]
       /\ WithinLimits(result[1])

C14_Witness ==
    /\ pc = "done_best_effort"
    /\ TooLong(1)
    /\ Len(original.experience[1].bullets) = MaxBullets
    /\ reduceLog = <<"claude_returned", "claude_raised", "manual">>
    /\ result[1].personal_info.name = "bob"
    /\ Len(result[1].projects) = 2
    /\ Len(renderLog[2].data.projects) = 3

(***************************************************************************)
(* The document invariants, on a parsed JSON object and on a document.     *)
(***************************************************************************)
HasBullets(entry) == "bullets" \in DOMAIN entry /\ Len(entry.bullets) >= 1

WellFormed(j) ==
    /\ {"personal_info", "education", "experience", "skills"} \subseteq DOMAIN j
    /\ {"name", "email", "phone"} \subseteq DOMAIN j.personal_info
    /\ Len(j.education) >= 1
    /\ \A i \in DOMAIN j.education :
          {"institution", "location", "degree", "dates"} \subseteq DOMAIN j.education[i]
    /\ Len(j.experience) >= 1
    /\ \A i \in DOMAIN j.experience :
          /\ {"title", "company", "location", "dates"} \subseteq DOMAIN j.experience[i]
          /\ HasBullets(j.experience[i])
    /\ "projects" \in DOMAIN j =>
          \A i \in DOMAIN j.projects :
             /\ {"name", "technologies", "date"} \subseteq DOMAIN j.projects[i]
             /\ HasBullets(j.projects[i])
    /\ DOMAIN j.skills # {}

DocInvariant(d) == "projects" \in DOMAIN d /\ WellFormed(d)

ResponseWellFormed(r) ==
    /\ r.kind = "text"
    /\ r.json # None
    /\ WellFormed(r.json[1])

LastReduction == reduceLog[Len(reduceLog)]

(***************************************************************************)
(* C15: the AI reducer never returns a structurally invalid document.  An  *)
(* answer that is an API failure, holds no JSON, or holds a JSON object    *)
(* violating a document invariant makes suggest_content_reduction raise    *)
(* (the optimizer then falls back to the heuristic); an answer it returns  *)
(* from is well formed; the working document satisfies the invariants in   *)
(* every state.                                                            *)
(***************************************************************************)
C15_ClaudeNeverReturnsInvalidDocument ==
    /\ DocInvariant(current_data)
    /\ response # NoResponse =>
          /\ reduceLog # <<>>
          /\ pc = "while"
          /\ raised = ""
          /\ ~ResponseWellFormed(response) => LastReduction = "manual"
          /\ LastReduction = "claude_returned" =>
                /\ ResponseWellFormed(response)
                /\ current_data = FromDict(response.json[1])
    /\ \A answer \in AIAnswers :
          ~ResponseWellFormed(answer) => ReductionRaises(answer)

C15_Witness ==
    /\ response = [kind |-> "text", json |-> Some(NoBulletsDict)]
    /\ reduceLog = <<"claude_returned", "claude_raised", "manual">>
    /\ current_data.personal_info.name = "bob"
    /\ DocInvariant(current_data)
    /\ pc = "while"

(***************************************************************************)
(* C16, as claimed: throughout a call (max_iterations >= 1) the identity   *)
(* block of the working document and the required scalar fields of each of *)
(* its entries equal those of the input document's entry at that position. *)
(***************************************************************************)
C16_IdentityAndScalarsPreserved ==
    max_iterations >= 1 =>
        /\ current_data.personal_info = original.personal_info
        /\ \A i \in DOMAIN current_data.education :
              /\ i \in DOMAIN original.education
              /\ current_data.education[i].institution = original.education[i].institution
              /\ current_data.education[i].degree = original.education[i].degree
              /\ current_data.education[i].dates = original.education[i].dates
        /\ \A i \in DOMAIN current_data.experience :
              /\ i \in DOMAIN original.experience
              /\ current_data.experience[i].title = original.experience[i].title
              /\ current_data.experience[i].company = original.experience[i].company
              /\ current_data.experience[i].dates = original.experience[i].dates
        /\ \A i \in DOMAIN current_data.projects :
              /\ i \in DOMAIN original.projects
              /\ current_data.projects[i].name = original.projects[i].name
              /\ current_data.projects[i].date = original.projects[i].date
        /\ Returned => result[1].personal_info = original.personal_info

(***************************************************************************)
(* C17, as claimed: a call (max_iterations >= 1) whose attempts are used   *)
(* up, the last one still measuring more than one page, ends by raising    *)
(* OptimizationError.                                                      *)
(***************************************************************************)
Exhausted ==
    /\ max_iterations >= 1
    /\ Len(renderLog) >= max_iterations
    /\ IsAttempt(max_iterations)
    /\ TooLong(max_iterations)

C18_NoIdenticalConsecutiveRenders ==
    max_iterations >= 1 =>
        \A i \in 1..(Len(renderLog) - 1) : renderLog[i + 1].data # renderLog[i].data

(***************************************************************************)
(* C18, amended: between two consecutive loop attempts exactly one         *)
(* reduction step is applied to the working document (the document the AI  *)
(* reducer returned, or the heuristic reducer's result), which need not    *)
(* differ from the document before; the best-effort final render compiles  *)
(* the very document of the last loop attempt.                             *)
(***************************************************************************)
ReductionSteps ==
    Cardinality({i \in DOMAIN reduceLog : reduceLog[i] \in {"claude_returned", "manual"}})

C18_OneReductionStepBetweenAttempts ==
    /\ \A i \in 1..(Len(renderLog) - 1) :
          IF IsFinalRender(i + 1)
          THEN renderLog[i + 1].data = renderLog[i].data
          ELSE renderLog[i + 1].data \in
                  {ManualContentReduction(renderLog[i].data)}
                     \cup {FromDict(j) : j \in ValidDicts}
    /\ (iteration >= 1 /\ pc \in {"check", "final", "done_success", "done_best_effort"})
          => /\ ReductionSteps = iteration - 1
             /\ Len(renderLog) = iteration + (IF pc = "done_best_effort" THEN 1 ELSE 0)

C18_Witness ==
    /\ pc = "done_best_effort"
    /\ max_iterations = 2
    /\ Len(renderLog) = 3
    /\ reduceLog = <<"claude_raised", "manual">>
    /\ renderLog[1].data = renderLog[2].data
    /\ renderLog[2].data = renderLog[3].data
    /\ IsFinalRender(3)

(***************************************************************************)
(* Size of a document: a is not larger than b when it has no more          *)
(* projects, no more bullets in any entry and no GPA or notes that b       *)
(* lacks; Weight adds the same quantities up.                              *)
(***************************************************************************)
NotLarger(a, b) ==
    /\ Len(a.projects) <= Len(b.projects)
    /\ \A i \in DOMAIN a.projects :
          Len(a.projects[i].bullets) <= Len(b.projects[i].bullets)
    /\ Len(a.experience) <= Len(b.experience)
    /\ \A i \in DOMAIN a.experience :
          Len(a.experience[i].bullets) <= Len(b.experience[i].bullets)
    /\ Len(a.education) <= Len(b.education)
    /\ \A i \in DOMAIN a.education :
          /\ a.education[i].gpa # None => b.education[i].gpa # None
          /\ a.education[i].additional_info # None =>
                b.education[i].additional_info # None

RECURSIVE SumBullets(_)
SumBullets(entries) ==
    IF Len(entries) = 0 THEN 0
    ELSE Len(Head(entries).bullets) + SumBullets(Tail(entries))

Weight(d) ==
    Len(d.projects) + SumBullets(d.projects)
    + Len(d.experience) + SumBullets(d.experience)
    + Len(d.education)
    + Cardinality({i \in DOMAIN d.education : d.education[i].gpa # None})
    + Cardinality({i \in DOMAIN d.education : d.education[i].additional_info # None})

(***************************************************************************)
(* C19: in a call where every reduction step so far was the heuristic's,   *)
(* the document of a later render is never larger than that of an earlier  *)
(* one, and once two consecutive loop attempts rendered the same document  *)
(* every later render has that document too.                               *)
(***************************************************************************)
C19_HeuristicShrinksOrStabilizes ==
    ClaudeNeverReturned =>
        /\ \A i, j \in DOMAIN renderLog :
              i < j => /\ NotLarger(renderLog[j].data, renderLog[i].data)
                       /\ Weight(renderLog[j].data) <= Weight(renderLog[i].data)
        /\ \A i \in 1..(Len(renderLog) - 1) :
              (IsAttempt(i + 1) /\ renderLog[i + 1].data = renderLog[i].data)
              => \A k \in (i + 1)..Len(renderLog) : renderLog[k].data = renderLog[i].data
        /\ NotLarger(current_data, original)
        /\ \A i \in DOMAIN renderLog : NotLarger(current_data, renderLog[i].data)

C19_Witness ==
    /\ ClaudeNeverReturned
    /\ ManualCalls = 3
    /\ Len(renderLog) = 4
    /\ IsAttempt(4)
    /\ Weight(renderLog[2].data) < Weight(renderLog[1].data)
    /\ renderLog[3].data = renderLog[2].data
    /\ renderLog[4].data = renderLog[2].data
    /\ Len(original.education) = MaxEducation
    /\ original.education[MaxEducation].gpa = None
    /\ current_data.education[MaxEducation].gpa = None

(***************************************************************************)
(* C20, as claimed: in a best-effort outcome of a call (max_iterations >=  *)
(* 1) no document rendered in a loop attempt is smaller than the returned  *)
(* one.                                                                    *)
(***************************************************************************)
C20_BestEffortReturnsMostReduced ==
    (max_iterations >= 1 /\ pc = "done_best_effort")
    => \A i \in DOMAIN renderLog :
          IsAttempt(i) => Weight(renderLog[i].data) >= Weight(result[1])

(***************************************************************************)
(* C21, as claimed: the heuristic reducer leaves the object it is given    *)
(* unmodified, so throughout and after a call (max_iterations >= 1) the    *)
(* document the caller passed still has its original content.              *)
(***************************************************************************)
C21_InputDocumentUnmodified ==
    max_iterations >= 1 => resume_data = original

(***************************************************************************)
(* C23: in a call (max_iterations >= 1) the i-th render of the loop is     *)
(* named <output_name>_attempt_<i>, i = 1, 2, ..., so no name is used      *)
(* twice; a render under the plain output name is the one after the loop;  *)
(* and nothing is stored under the plain output name before the call has   *)
(* ended with the last loop attempt compiled and measured.                 *)
(***************************************************************************)
PlainNameWritten ==
    \/ PdfPath(output_name) \in DOMAIN pdfs_dir
    \/ TexPath(output_name) \in DOMAIN generated_dir

C23_AttemptNamesCountUp ==
    max_iterations >= 1 =>
        /\ Len(renderLog) \in {iteration - 1, iteration, iteration + 1}
        /\ \A i \in DOMAIN renderLog :
              IF i <= iteration
              THEN renderLog[i].name = output_name \o "_attempt_" \o ToString(i)
              ELSE /\ renderLog[i].name = output_name
                   /\ iteration = max_iterations
                   /\ pc \in {"done_best_effort", "raised"}
        /\ \A i, j \in DOMAIN renderLog : i # j => renderLog[i].name # renderLog[j].name
        /\ PlainNameWritten =>
              /\ Terminated
              /\ Len(renderLog) >= iteration
              /\ renderLog[iteration].ok
              /\ \/ pc = "done_success" /\ renderLog[iteration].pages = 1
                 \/ iteration = max_iterations /\ renderLog[iteration].pages > 1

C23_Witness ==
    /\ pc = "done_best_effort"
    /\ max_iterations = 3
    /\ Len(renderLog) = 4
    /\ renderLog[1].name = "cv_attempt_1"
    /\ renderLog[2].name = "cv_attempt_2"
    /\ renderLog[3].name = "cv_attempt_3"
    /\ renderLog[4].name = "cv"
    /\ "pdfs/cv.pdf" \in DOMAIN pdfs_dir

(***************************************************************************)
(* C24: a step that invokes a reducer is taken only after an attempt       *)
(* measured more than one page with attempts remaining (iteration <        *)
(* max_iterations), and leads back to the loop head, where a further       *)
(* attempt is due; so once the loop is left the working document is the    *)
(* one the last attempt compiled and measured, and a best-effort outcome   *)
(* returns exactly the document of attempt max_iterations.                 *)
(***************************************************************************)
ReducerInvoked == reduceLog' # reduceLog

MeasuredBeforeLeaving ==
    /\ (pc = "while" /\ reduceLog # <<>>) => iteration < max_iterations
    /\ (iteration >= 1 /\ pc \in {"final", "done_success", "done_best_effort"}) =>
          /\ Len(renderLog) >= iteration
          /\ renderLog[iteration].ok
          /\ current_data = renderLog[iteration].data
    /\ (max_iterations >= 1 /\ pc = "done_best_effort") =>
          /\ iteration = max_iterations
          /\ result[1] = renderLog[max_iterations].data
          /\ renderLog[max_iterations].pages > 1

C24_NoReductionInLastIteration ==
    /\ [][ReducerInvoked =>
             /\ pc = "check"
             /\ page_count > 1
             /\ iteration < max_iterations
             /\ pc' = "while"
             /\ iteration' = iteration]_vars
    /\ []MeasuredBeforeLeaving

C24_Witness ==
    /\ pc = "done_best_effort"
    /\ max_iterations = 3
    /\ reduceLog = <<"claude_returned", "claude_returned">>
    /\ renderLog[2].data # renderLog[1].data
    /\ renderLog[3].data # renderLog[2].data
    /\ result[1] = renderLog[3].data

(***************************************************************************)
(* C26, as claimed: a call with max_iterations <= 0 ends by returning the  *)
(* input document normally, after exactly one render under the plain       *)
(* output name and no reducer call.                                        *)
(***************************************************************************)
C26_NoBudgetReturnsInputNormally ==
    (max_iterations <= 0 /\ Terminated)
    => /\ pc = "done_best_effort"
       /\ raised = ""
       /\ result # <<>>
       /\ result[1] = original
       /\ Len(renderLog) = 1
       /\ reduceLog = <<>>

(***************************************************************************)
(* C26, amended: with max_iterations <= 0 the loop body never runs: no     *)
(* attempt is rendered, no reducer is invoked and the page count is never  *)
(* compared with the target.  The only render is the one under the plain   *)
(* output name; when it succeeds the call returns the input document with  *)
(* that PDF, whatever number of pages it has (none, one or more); when it  *)
(* fails the call ends with the renderer's LaTeXCompilationError.          *)
(***************************************************************************)
C26_NoBudgetSkipsTheLoop ==
    max_iterations <= 0 =>
        /\ iteration = 0
        /\ reduceLog = <<>>
        /\ response = NoResponse
        /\ resume_data = original /\ current_data = original
        /\ pc \in {"while", "final", "done_best_effort", "raised"}
        /\ Len(renderLog) = (IF Terminated THEN 1 ELSE 0)
        /\ \A i \in DOMAIN renderLog : IsFinalRender(i)
        /\ raised # "OptimizationError"
        /\ pc = "done_best_effort" =>
              /\ result = <<original, PdfPath(output_name)>>
              /\ renderLog[1].ok
              /\ page_count = renderLog[1].pages
              /\ pdfs_dir[PdfPath(output_name)].tex = RenderTemplate(original)
        /\ pc = "raised" =>
              /\ raised = "LaTeXCompilationError"
              /\ ~renderLog[1].ok
              /\ result = <<>>

C26_Witness ==
    /\ max_iterations = 0
    /\ pc = "done_best_effort"
    /\ Len(renderLog) = 1
    /\ renderLog[1].pages = 0
    /\ result[1] = original
    /\ Len(original.projects) = MaxProjects

(***************************************************************************)
(* C25: a call with max_iterations >= 1 ends (returns or raises), whatever *)
(* the collaborators answer, and at no time has it invoked the renderer    *)
(* more than max_iterations + 1 times or the AI reducer more than          *)
(* max_iterations - 1 times; the heuristic reducer runs only right after   *)
(* a failure of the AI reducer, once per failure.                          *)
(***************************************************************************)
ClaudeFailures ==
    Cardinality({i \in DOMAIN reduceLog : reduceLog[i] = "claude_raised"})

WithinBudget ==
    max_iterations >= 1 =>
        /\ Len(renderLog) <= max_iterations + 1
        /\ ClaudeCalls <= max_iterations - 1
        /\ ManualCalls <= ClaudeFailures
        /\ \A i \in DOMAIN reduceLog :
              reduceLog[i] = "manual" => (i > 1 /\ reduceLog[i - 1] = "claude_raised")

C25_TerminatesWithinBudget ==
    /\ []WithinBudget
    /\ (max_iterations >= 1) ~> Terminated

C25_Witness ==
    /\ pc = "done_best_effort"
    /\ max_iterations = MaxIterations
    /\ Len(renderLog) = max_iterations + 1
    /\ ClaudeCalls = max_iterations - 1
    /\ ManualCalls = 2
    /\ ClaudeFailures = 2

(***************************************************************************)
(* Artifact names of a call c (its locals): the names it has passed to the *)
(* renderer or persisted under, and those under which a PDF of its own was *)
(* certainly stored.                                                       *)
(***************************************************************************)
NamesUsed(c) ==
    {c.renderLog[i].name : i \in DOMAIN c.renderLog}
    \cup (IF c.pc = "done_success" THEN {c.output_name} ELSE {})

NamesWritten(c) ==
    {c.renderLog[i].name : i \in {k \in DOMAIN c.renderLog : c.renderLog[k].ok}}
    \cup (IF c.pc = "done_success" THEN {c.output_name} ELSE {})

\* Every PDF the call had compiled is still the one stored under its name,
\* and what a successful call persisted is the rendering of its own result.
KeepsItsArtifacts(c) ==
    /\ \A i \in DOMAIN c.renderLog :
          c.renderLog[i].ok =>
             /\ PdfPath(c.renderLog[i].name) \in DOMAIN pdfs_dir
             /\ pdfs_dir[PdfPath(c.renderLog[i].name)].tex =
                   RenderTemplate(c.renderLog[i].data)
    /\ c.pc = "done_success" =>
          /\ pdfs_dir[PdfPath(c.output_name)].tex = RenderTemplate(c.result[1])
          /\ generated_dir[TexPath(c.output_name)] = RenderTemplate(c.result[1])

TwoCalls == other.pc # "none"

\* Neither output name is spelled like an attempt name of the other call.
NoAttemptNameClash ==
    \A i \in 1..2 :
       /\ output_name # other.output_name \o "_attempt_" \o ToString(i)
       /\ other.output_name # output_name \o "_attempt_" \o ToString(i)

(***************************************************************************)
(* C22, as claimed: two interleaved calls with distinct output names never *)
(* store an artifact under the same name.                                  *)
(***************************************************************************)
C22_DistinctNamesNeverCollide ==
    (TwoCalls /\ output_name # other.output_name)
    => NamesWritten(Locals) \cap NamesWritten(other) = {}

(***************************************************************************)
(* C22, amended: two interleaved calls whose output names are distinct and *)
(* of which neither is spelled <the other's name>_attempt_<i> use disjoint *)
(* artifact names, and neither overwrites or persists an artifact of the   *)
(* other: every PDF a call compiled stays stored under its name, and a     *)
(* successful call persists the rendering of its own document.             *)
(***************************************************************************)
C22_UnrelatedNamesDoNotInterfere ==
    (TwoCalls /\ output_name # other.output_name /\ NoAttemptNameClash)
    => /\ NamesUsed(Locals) \cap NamesUsed(other) = {}
       /\ KeepsItsArtifacts(Locals)
       /\ KeepsItsArtifacts(other)

C22_Witness ==
    /\ TwoCalls
    /\ other.output_name = "cv"
    /\ output_name = "job"
    /\ other.pc = "done_success"
    /\ Len(other.renderLog) = 2
    /\ pc = "done_best_effort"
    /\ Len(renderLog) = 3
    /\ pdfs_dir["pdfs/cv.pdf"].tex.personal_info.name = "bob"
    /\ pdfs_dir["pdfs/job.pdf"].tex.personal_info.name = "cat"
    /\ pdfs_dir["pdfs/job_attempt_1.pdf"].tex.personal_info.name = "cat"

====
